---- MODULE Spec2Model ----
(***************************************************************************)
(* Model of MinecraftServerService (src/src/discord-bot.service.ts,        *)
(* lines 88-292): the droplet lifecycle controller and its SSH executor.   *)
(*                                                                         *)
(* Every await of the source is a suspension point: the code up to an      *)
(* await is one atomic step, and the resolution or rejection of the        *)
(* awaited promise is another.  The cloud client (doService) and the SSH   *)
(* transport (NodeSSH) are external: each of their promises may resolve    *)
(* or reject.                                                              *)
(***************************************************************************)
EXTENDS Integers, Sequences, FiniteSets, TLC

(* Bounds of the model. *)
MaxCreates ==
  2

MaxStops ==
  2

ScriptLen ==
  2

MaxForces ==
  1

(* The value of a field that was never assigned (dropletId, ipv4,          *)
(* creationCallback) and of an omitted callback argument.                  *)
Undefined ==
  0

ServerStatus ==
  {"up", "down", "starting", "stopping", "weird"}

initializationScript ==
  << "mkdir -p /mnt/discord_mcserver",
     "mount /dev/sda /mnt/discord_mcserver",
     "apt install openjdk-11-jre-headless -y",
     "ufw allow 25565/tcp",
     "ufw allow 25565/udp",
     "useradd --home-dir /mnt/discord_mcserver/minecraft --uid=10001 minecraft",
     "cp /mnt/discord_mcserver/minecraft.service /etc/systemd/system/minecraft.service",
     "systemctl daemon-reload",
     "systemctl enable --now minecraft.service" >>

(* The prefix of the script the model runs. *)
Script ==
  SubSeq(initializationScript, 1, ScriptLen)

(* `for (const cmd in arr)` enumerates the keys of the array, "0", "1", .. *)
(* in order, not its elements.                                             *)
ForInKeys(arr) ==
  [i \in 1..Len(arr) |-> ToString(i - 1)]

(* The kinds of callback a caller can pass to createServer: none, one that *)
(* returns, one that throws.                                               *)
Callbacks ==
  {"none", "returns", "throws"}

(* The answers of doService.getDroplet(id): a provider status and, maybe,  *)
(* the address of the droplet (droplet d has address d).                   *)
DropletAnswers(id) ==
  [status : {"new", "active"}, ip_address : {Undefined, id}]

VARIABLES
  status,            \* this.status
  dropletId,         \* this.dropletId
  ipv4,              \* this.ipv4
  creationCallback,  \* this.creationCallback: Undefined, or the createServer call that passed it
  creations,         \* the accepted createServer calls and the flows they started
  stops,             \* the accepted stopServer calls
  issued,            \* droplets the cloud has created so far
  deleteCalls,       \* arguments of the doService.deleteDroplet calls made
  cbCalls,           \* how often the callback of each createServer call was invoked
  forces,            \* forceStatus calls made so far
  lastOp             \* the step that produced the current state

vars ==
  <<status, dropletId, ipv4, creationCallback, creations, stops, issued,
    deleteCalls, cbCalls, forces, lastOp>>

(* The constructor: sshConfig.host is a copy of this.ipv4 taken here, when *)
(* ipv4 is still unassigned; nothing updates it afterwards.                *)
sshConfigHost ==
  Undefined

Op(name, flow, arg) ==
  [name |-> name, flow |-> flow, arg |-> arg]

Init ==
  /\ status = "down"
  /\ dropletId = Undefined
  /\ ipv4 = Undefined
  /\ creationCallback = Undefined
  /\ creations = << >>
  /\ stops = << >>
  /\ issued = 0
  /\ deleteCalls = {}
  /\ cbCalls = [c \in 1..MaxCreates |-> 0]
  /\ forces = 0
  /\ lastOp = Op("constructor", 0, "")

getStatus ==
  [status |-> status, ipv4 |-> ipv4, dropletId |-> dropletId]


(***************************************************************************)
(* createServer (lines 150-172).                                           *)
(***************************************************************************)

(* A creation flow right after the call was accepted: suspended at         *)
(* `await this.doService.createDroplet()`.                                 *)
NewCreation(cb) ==
  [pc |-> "createDroplet", cb |-> cb, arg |-> Undefined, ssh |-> "none",
   result |-> "pending", execs |-> {}]

Ended(flow, result) ==
  [flow EXCEPT !.pc = "ended", !.result = result]

(* createServerRefused without the `return` of line 153: the refused call  *)
(* falls through to lines 155-160.                                         *)
createServerRefused_NoReturn(cb) ==
  /\ status # "down"
  /\ Len(creations) < MaxCreates
  /\ LET f == Len(creations) + 1 IN
       /\ creationCallback' = IF cb = "none" THEN Undefined ELSE f
       /\ status' = "starting"
       /\ creations' = Append(creations, NewCreation(cb))
       /\ lastOp' = Op("createServer", f, "")
  /\ UNCHANGED <<dropletId, ipv4, stops, issued, deleteCalls, cbCalls, forces>>

(* createServerAccepted with the guard of line 151 refusing only a server  *)
(* that is up: a call is accepted while another creation is under way.     *)
createServerAccepted_GuardUp(cb) ==
  /\ status # "up"
  /\ Len(creations) < MaxCreates
  /\ LET f == Len(creations) + 1 IN
       /\ creationCallback' = IF cb = "none" THEN Undefined ELSE f
       /\ status' = "starting"
       /\ creations' = Append(creations, NewCreation(cb))
       /\ lastOp' = Op("createServer", f, "")
  /\ UNCHANGED <<dropletId, ipv4, stops, issued, deleteCalls, cbCalls, forces>>

(* createServerAccepted with the assignment of line 158 moved behind the   *)
(* await of line 160: the call passes the guard and requests the droplet   *)
(* while the status still reads "down".                                    *)
createServerAccepted_LateStatus(cb) ==
  /\ status = "down"
  /\ Len(creations) < MaxCreates
  /\ LET f == Len(creations) + 1 IN
       /\ creationCallback' = IF cb = "none" THEN Undefined ELSE f
       /\ creations' = Append(creations, NewCreation(cb))
       /\ lastOp' = Op("createServer", f, "")
  /\ UNCHANGED <<status, dropletId, ipv4, stops, issued, deleteCalls, cbCalls,
                 forces>>

(* Lines 151-154: the guard fails, a warning is logged, nothing else.      *)
createServerRefused(cb) ==
  /\ status # "down"
  /\ lastOp' = Op("createServer", 0, "")
  /\ UNCHANGED <<status, dropletId, ipv4, creationCallback, creations, stops,
                 issued, deleteCalls, cbCalls, forces>>

(* Lines 151-160: the guard passes; the callback is stored, the status     *)
(* becomes "starting" and createDroplet is requested.                      *)
createServerAccepted(cb) ==
  /\ status = "down"
  /\ Len(creations) < MaxCreates
  /\ LET f == Len(creations) + 1 IN
       /\ creationCallback' = IF cb = "none" THEN Undefined ELSE f
       /\ status' = "starting"
       /\ creations' = Append(creations, NewCreation(cb))
       /\ lastOp' = Op("createServer", f, "")
  /\ UNCHANGED <<dropletId, ipv4, stops, issued, deleteCalls, cbCalls, forces>>

createServer(cb) ==
  \/ createServerRefused(cb)
  \/ createServerAccepted(cb)

(* Lines 160-166: createDroplet resolves with a fresh id; the id is kept   *)
(* and waitForDroplet() is called, which runs to its first await, the      *)
(* getDroplet(this.dropletId) request of line 246.                         *)
createDropletResolve(f) ==
  /\ creations[f].pc = "createDroplet"
  /\ issued' = issued + 1
  /\ dropletId' = issued + 1
  /\ creations' = [creations EXCEPT ![f] =
                     [@ EXCEPT !.pc = "getDroplet", !.arg = issued + 1]]
  /\ lastOp' = Op("createDropletResolve", f, "")
  /\ UNCHANGED <<status, ipv4, creationCallback, stops, deleteCalls, cbCalls,
                 forces>>

(* Lines 167-171: createDroplet rejects; the status goes back to "down".   *)
createDropletReject(f) ==
  /\ creations[f].pc = "createDroplet"
  /\ status' = "down"
  /\ creations' = [creations EXCEPT ![f] = Ended(@, "down")]
  /\ lastOp' = Op("createDropletReject", f, "")
  /\ UNCHANGED <<dropletId, ipv4, creationCallback, stops, issued, deleteCalls,
                 cbCalls, forces>>

(***************************************************************************)
(* waitForDroplet (lines 245-265).                                         *)
(***************************************************************************)

(* Lines 246-264: getDroplet resolves with res.  Not active, or active     *)
(* without an address: setTimeout(this.waitForDroplet, 5000).  Otherwise   *)
(* the address is kept and initDroplet() is called, which runs to its      *)
(* first await, ssh.connect(this.sshConfig) of line 273.                   *)
waitForDroplet(f, res) ==
  /\ creations[f].pc = "getDroplet"
  /\ res \in DropletAnswers(creations[f].arg)
  /\ IF res.status # "active" \/ res.ip_address = Undefined
       THEN /\ creations' = [creations EXCEPT ![f].pc = "setTimeout"]
            /\ UNCHANGED ipv4
       ELSE /\ ipv4' = res.ip_address
            /\ creations' = [creations EXCEPT ![f] =
                               [@ EXCEPT !.pc = "connect", !.ssh = "connecting"]]
  /\ lastOp' = Op("waitForDroplet", f, res.status)
  /\ UNCHANGED <<status, dropletId, creationCallback, stops, issued,
                 deleteCalls, cbCalls, forces>>

(* Line 246: getDroplet rejects.  waitForDroplet was called without await  *)
(* and without catch (line 166): the flow ends in an unhandled rejection.  *)
getDropletReject(f) ==
  /\ creations[f].pc = "getDroplet"
  /\ creations' = [creations EXCEPT ![f] = Ended(@, "unhandled")]
  /\ lastOp' = Op("getDropletReject", f, "")
  /\ UNCHANGED <<status, dropletId, ipv4, creationCallback, stops, issued,
                 deleteCalls, cbCalls, forces>>

(* Lines 249, 257: the timer fires and calls the method it was given,      *)
(* this.waitForDroplet, detached from the service: `this` is not the       *)
(* service, this.doService is undefined and line 246 throws a TypeError    *)
(* before any request is made.  The flow ends in an unhandled rejection.   *)
timerFires(f) ==
  /\ creations[f].pc = "setTimeout"
  /\ creations' = [creations EXCEPT ![f] = Ended(@, "unhandled")]
  /\ lastOp' = Op("timerFires", f, "")
  /\ UNCHANGED <<status, dropletId, ipv4, creationCallback, stops, issued,
                 deleteCalls, cbCalls, forces>>

(***************************************************************************)
(* runSSHCommand (lines 215-242).                                          *)
(***************************************************************************)

(* Lines 221-228: whether the executor disposes the session at the end:    *)
(* only when the caller supplied none.                                     *)
disposeSSH(ssh) ==
  ssh = "none"

(* Lines 224-230: the session the command is sent on, at the await of      *)
(* ssh.execCommand.  Without a supplied session a new one is made and      *)
(* ssh.connect(this.sshConfig) is called on it, not awaited.               *)
runSSHCommandSession(ssh) ==
  IF ssh = "none" THEN "connecting" ELSE ssh

(* Lines 230-241: execCommand resolved; the session afterwards.            *)
runSSHCommandReturn(dispose, ssh) ==
  IF dispose THEN "disposed" ELSE ssh

(***************************************************************************)
(* initDroplet (lines 268-291).                                            *)
(***************************************************************************)

(* The commands the loop of lines 276-278 passes to runSSHCommand.         *)
initCommands ==
  ForInKeys(Script)

(* Lines 283-285: whether the call of the stored callback throws.          *)
callbackThrows ==
  /\ creationCallback # Undefined
  /\ creations[creationCallback].cb = "throws"

(* The values initDroplet assigns to the status once connect has resolved, *)
(* in order: "up" at line 281, then "weird" at line 289 when the callback  *)
(* called at line 284 throws into the catch.                               *)
initDropletStatuses ==
  IF callbackThrows THEN <<"up", "weird">> ELSE <<"up">>

(* Lines 273-285: connect resolves.  The loop calls runSSHCommand for      *)
(* every command without awaiting any: each call runs to its own           *)
(* `await ssh.execCommand` and all of them stay pending.  Then the status  *)
(* becomes "up" and the stored callback, if any, is called; when it        *)
(* throws, the catch of lines 286-290 makes the status "weird".            *)
initDroplet(f) ==
  /\ creations[f].pc = "connect"
  /\ LET cb == creationCallback
         last == initDropletStatuses[Len(initDropletStatuses)]
     IN /\ status' = last
        /\ cbCalls' = IF cb # Undefined
                        THEN [cbCalls EXCEPT ![cb] = @ + 1]
                        ELSE cbCalls
        /\ creations' = [creations EXCEPT ![f] =
                           [Ended(@, last) EXCEPT
                              !.ssh = runSSHCommandSession("open"),
                              !.execs = DOMAIN initCommands]]
  /\ lastOp' = Op("initDroplet", f, "")
  /\ UNCHANGED <<dropletId, ipv4, creationCallback, stops, issued, deleteCalls,
                 forces>>

(* Lines 273, 286-290: connect rejects; the status becomes "weird".        *)
connectReject(f) ==
  /\ creations[f].pc = "connect"
  /\ status' = "weird"
  /\ creations' = [creations EXCEPT ![f] =
                     [Ended(@, "weird") EXCEPT !.ssh = "failed"]]
  /\ lastOp' = Op("connectReject", f, "")
  /\ UNCHANGED <<dropletId, ipv4, creationCallback, stops, issued, deleteCalls,
                 cbCalls, forces>>

(* Lines 230-241, called from line 277: a script command's execCommand     *)
(* resolves; its output is logged and the supplied session is left open.   *)
execCommandResolve(f, i) ==
  /\ i \in creations[f].execs
  /\ creations' = [creations EXCEPT ![f] =
                     [@ EXCEPT !.execs = @ \ {i},
                               !.ssh = runSSHCommandReturn(
                                         disposeSSH(creations[f].ssh),
                                         creations[f].ssh)]]
  /\ lastOp' = Op("execCommandResolve", f, initCommands[i])
  /\ UNCHANGED <<status, dropletId, ipv4, creationCallback, stops, issued,
                 deleteCalls, cbCalls, forces>>

(* Line 230, called from line 277: a script command's execCommand rejects. *)
(* Nothing awaits the promise of runSSHCommand: an unhandled rejection,    *)
(* outside the try of initDroplet.                                         *)
execCommandReject(f, i) ==
  /\ i \in creations[f].execs
  /\ creations' = [creations EXCEPT ![f].execs = @ \ {i}]
  /\ lastOp' = Op("execCommandReject", f, initCommands[i])
  /\ UNCHANGED <<status, dropletId, ipv4, creationCallback, stops, issued,
                 deleteCalls, cbCalls, forces>>

(***************************************************************************)
(* stopServer (lines 175-193).                                             *)
(***************************************************************************)

(* stopServerRefused without the `return` of line 180: the refused call    *)
(* logs the warning and goes on to lines 183-187.                          *)
stopServerRefused_NoReturn ==
  /\ status # "up" /\ status # "weird"
  /\ Len(stops) < MaxStops
  /\ status' = "stopping"
  /\ stops' = Append(stops, [pc |-> "execCommand", arg |-> Undefined,
                             dispose |-> disposeSSH("none"),
                             ssh |-> runSSHCommandSession("none"),
                             result |-> "pending"])
  /\ lastOp' = Op("stopServer", Len(stops) + 1, "")
  /\ UNCHANGED <<dropletId, ipv4, creationCallback, creations, issued,
                 deleteCalls, cbCalls, forces>>

(* Lines 176-181: the guard fails, a warning is logged, nothing else.      *)
stopServerRefused ==
  /\ status # "up" /\ status # "weird"
  /\ lastOp' = Op("stopServer", 0, "")
  /\ UNCHANGED <<status, dropletId, ipv4, creationCallback, creations, stops,
                 issued, deleteCalls, cbCalls, forces>>

(* Lines 176-187: the guard passes; the status becomes "stopping" and      *)
(* runSSHCommand("systemctl stop minecraft") is called without a session.  *)
stopServerAccepted ==
  /\ status = "up" \/ status = "weird"
  /\ Len(stops) < MaxStops
  /\ status' = "stopping"
  /\ stops' = Append(stops, [pc |-> "execCommand", arg |-> Undefined,
                             dispose |-> disposeSSH("none"),
                             ssh |-> runSSHCommandSession("none"),
                             result |-> "pending"])
  /\ lastOp' = Op("stopServer", Len(stops) + 1, "")
  /\ UNCHANGED <<dropletId, ipv4, creationCallback, creations, issued,
                 deleteCalls, cbCalls, forces>>

stopServer ==
  \/ stopServerRefused
  \/ stopServerAccepted

(* Lines 230-241, awaited at line 187: the stop command's execCommand      *)
(* resolves; runSSHCommand logs the output, disposes its session and       *)
(* returns.  stopServer resumes in a later turn of the event loop.         *)
stopCommandResolve(s) ==
  /\ stops[s].pc = "execCommand"
  /\ stops' = [stops EXCEPT ![s] =
                 [@ EXCEPT !.pc = "runSSHCommand",
                           !.ssh = runSSHCommandReturn(stops[s].dispose,
                                                       stops[s].ssh)]]
  /\ lastOp' = Op("stopCommandResolve", s, "")
  /\ UNCHANGED <<status, dropletId, ipv4, creationCallback, creations, issued,
                 deleteCalls, cbCalls, forces>>

(* Lines 187-189: stopServer resumes after runSSHCommand has returned,     *)
(* reads this.dropletId as it is now and requests deleteDroplet for it.    *)
stopServerResume(s) ==
  /\ stops[s].pc = "runSSHCommand"
  /\ stops' = [stops EXCEPT ![s] =
                 [@ EXCEPT !.pc = "deleteDroplet", !.arg = dropletId]]
  /\ deleteCalls' = deleteCalls \cup {dropletId}
  /\ lastOp' = Op("stopServerResume", s, "")
  /\ UNCHANGED <<status, dropletId, ipv4, creationCallback, creations, issued,
                 cbCalls, forces>>

(* Lines 187, 230: the stop command's execCommand rejects.  runSSHCommand  *)
(* rejects before line 239 and stopServer, which has no try, rejects at    *)
(* line 187: nothing after it runs, and nothing is read or assigned        *)
(* between the two rejections.                                             *)
stopCommandReject(s) ==
  /\ stops[s].pc = "execCommand"
  /\ stops' = [stops EXCEPT ![s] = Ended(@, "rejected")]
  /\ lastOp' = Op("stopCommandReject", s, "")
  /\ UNCHANGED <<status, dropletId, ipv4, creationCallback, creations, issued,
                 deleteCalls, cbCalls, forces>>

(* Lines 189-192: deleteDroplet resolves; the status becomes "down".       *)
deleteDropletResolve(s) ==
  /\ stops[s].pc = "deleteDroplet"
  /\ status' = "down"
  /\ stops' = [stops EXCEPT ![s] = Ended(@, "down")]
  /\ lastOp' = Op("deleteDropletResolve", s, "")
  /\ UNCHANGED <<dropletId, ipv4, creationCallback, creations, issued,
                 deleteCalls, cbCalls, forces>>

(* Line 189: deleteDroplet rejects, and so does stopServer.                *)
deleteDropletReject(s) ==
  /\ stops[s].pc = "deleteDroplet"
  /\ stops' = [stops EXCEPT ![s] = Ended(@, "rejected")]
  /\ lastOp' = Op("deleteDropletReject", s, "")
  /\ UNCHANGED <<status, dropletId, ipv4, creationCallback, creations, issued,
                 deleteCalls, cbCalls, forces>>

(***************************************************************************)
(* forceStatus (lines 196-199).                                            *)
(***************************************************************************)
(* forceStatus that also forgets the droplet when forced to "down".        *)
forceStatus_Forgets(newStatus) ==
  /\ forces < MaxForces
  /\ forces' = forces + 1
  /\ status' = newStatus
  /\ dropletId' = IF newStatus = "down" THEN Undefined ELSE dropletId
  /\ ipv4' = IF newStatus = "down" THEN Undefined ELSE ipv4
  /\ lastOp' = Op("forceStatus", 0, newStatus)
  /\ UNCHANGED <<creationCallback, creations, stops, issued, deleteCalls,
                 cbCalls>>

forceStatus(newStatus) ==
  /\ forces < MaxForces
  /\ forces' = forces + 1
  /\ status' = newStatus
  /\ lastOp' = Op("forceStatus", 0, newStatus)
  /\ UNCHANGED <<dropletId, ipv4, creationCallback, creations, stops, issued,
                 deleteCalls, cbCalls>>

(* Every step but the debug override: the calls of createServer and       *)
(* stopServer and the completions of what they await.                      *)
Lifecycle ==
  \/ \E cb \in Callbacks : createServer(cb)
  \/ \E f \in DOMAIN creations : createDropletResolve(f)
  \/ \E f \in DOMAIN creations : createDropletReject(f)
  \/ \E f \in DOMAIN creations :
       \E res \in DropletAnswers(creations[f].arg) : waitForDroplet(f, res)
  \/ \E f \in DOMAIN creations : getDropletReject(f)
  \/ \E f \in DOMAIN creations : timerFires(f)
  \/ \E f \in DOMAIN creations : initDroplet(f)
  \/ \E f \in DOMAIN creations : connectReject(f)
  \/ \E f \in DOMAIN creations :
       \E i \in creations[f].execs : execCommandResolve(f, i)
  \/ \E f \in DOMAIN creations :
       \E i \in creations[f].execs : execCommandReject(f, i)
  \/ stopServer
  \/ \E s \in DOMAIN stops : stopCommandResolve(s)
  \/ \E s \in DOMAIN stops : stopServerResume(s)
  \/ \E s \in DOMAIN stops : stopCommandReject(s)
  \/ \E s \in DOMAIN stops : deleteDropletResolve(s)
  \/ \E s \in DOMAIN stops : deleteDropletReject(s)

Next ==
  \/ Lifecycle
  \/ \E newStatus \in ServerStatus : forceStatus(newStatus)

Spec ==
  Init /\ [][Next]_vars

(* The controller driven without forceStatus. *)
SpecLifecycle ==
  Init /\ [][Lifecycle]_vars

(***************************************************************************)
(* Properties.                                                             *)
(***************************************************************************)

(* Everything a call can change besides the record of the call itself.     *)
controller ==
  <<status, dropletId, ipv4, creationCallback, creations, stops, issued,
    deleteCalls, cbCalls>>

(* C1: a createServer call made while the status is not "down" changes     *)
(* nothing: status, dropletId, ipv4 and the stored callback stay as they   *)
(* were, no createDroplet is requested and no poll is started.             *)
C1_CreateRefusedIsNoOp ==
  [][(lastOp'.name = "createServer" /\ status # "down")
       => UNCHANGED controller]_vars

(* A createServer call was just refused while a creation is polling.       *)
C1_Witness ==
  /\ lastOp = Op("createServer", 0, "")
  /\ status = "starting"
  /\ Len(creations) = 1
  /\ creations[1].pc = "getDroplet"
  /\ creationCallback = 1

(* C2: a stopServer call made while the status is "down", "starting" or    *)
(* "stopping" changes nothing: status, dropletId and ipv4 stay as they     *)
(* were, no stop command is executed and no deleteDroplet is requested.    *)
C2_StopRefusedIsNoOp ==
  [][(lastOp'.name = "stopServer" /\ status \notin {"up", "weird"})
       => UNCHANGED controller]_vars

(* A stopServer call was just refused while a creation is polling.         *)
C2_Witness ==
  /\ lastOp = Op("stopServer", 0, "")
  /\ status = "starting"
  /\ stops = << >>
  /\ \E f \in DOMAIN creations : creations[f].pc = "getDroplet"

(* C3: a creation that passed a callback and whose provisioning went       *)
(* through leaves the status "up" with that callback invoked exactly once; *)
(* no callback is invoked twice, and the callback of a creation that       *)
(* ended in "down" or "weird" is never invoked.                            *)
C3_CallbackExactlyOnce ==
  /\ (lastOp.name = "initDroplet" /\ creations[lastOp.flow].cb # "none")
       => (status = "up" /\ cbCalls[lastOp.flow] = 1)
  /\ \A f \in DOMAIN creations :
       /\ cbCalls[f] <= 1
       /\ creations[f].result \in {"down", "weird"} => cbCalls[f] = 0

(* C4: when createDroplet fails, the status is "down" and getStatus        *)
(* reports no dropletId.                                                   *)
C4_CreateFailureLeavesNoHandle ==
  lastOp.name = "createDropletReject"
    => (getStatus.status = "down" /\ getStatus.dropletId = Undefined)

(* C5: when the provisioning session cannot be opened or a script command  *)
(* fails, the status becomes "weird" with dropletId and ipv4 still set,    *)
(* and that creation never makes the status "up".                          *)
C5_ProvisioningFailureIsWeird ==
  lastOp.name \in {"connectReject", "execCommandReject"}
    => /\ status = "weird"
       /\ creations[lastOp.flow].result # "up"
       /\ dropletId # Undefined
       /\ ipv4 # Undefined

(* C6: when an accepted stopServer completes, the status is "down" and     *)
(* getStatus reports neither a dropletId nor an ipv4.                      *)
C6_StopClearsHandleAndAddress ==
  lastOp.name = "deleteDropletResolve"
    => /\ getStatus.status = "down"
       /\ getStatus.dropletId = Undefined
       /\ getStatus.ipv4 = Undefined

(* The stopServer call s is over and its stop command had failed: the      *)
(* session of the command was never disposed.                              *)
StopCommandFailed(s) ==
  stops[s].pc = "ended" /\ stops[s].ssh # "disposed"

(* C7: when the stop command fails, deleteDroplet is still requested for   *)
(* the current dropletId, and the failure never leaves the status at       *)
(* "stopping" once stopServer is over.                                     *)
C7_StopCommandFailureStillDeletes ==
  /\ lastOp.name = "stopCommandReject"
       => /\ stops[lastOp.flow].pc = "deleteDroplet"
          /\ dropletId \in deleteCalls
  /\ \A s \in DOMAIN stops : StopCommandFailed(s) => status # "stopping"

(* C8: forceStatus(s) makes getStatus report s and changes nothing else:   *)
(* dropletId, ipv4, the stored callback and every flow in flight stay as   *)
(* they were.                                                              *)
C8_ForceStatusOnlySetsStatus ==
  [][lastOp'.name = "forceStatus"
       => /\ getStatus'.status = lastOp'.arg
          /\ UNCHANGED <<dropletId, ipv4, creationCallback, creations, stops,
                         issued, deleteCalls, cbCalls>>]_vars

(* forceStatus("down") was just called while a creation with a stored      *)
(* callback awaits its session and the droplet and its address are known.  *)
C8_Witness ==
  /\ lastOp = Op("forceStatus", 0, "down")
  /\ status = "down"
  /\ dropletId # Undefined
  /\ ipv4 # Undefined
  /\ creationCallback # Undefined
  /\ \E f \in DOMAIN creations : creations[f].pc = "connect"

(* C9: a dropletId is set exactly when the status is not "down".           *)
C9_HandleIffNotDown ==
  (getStatus.dropletId # Undefined) <=> (status # "down")

(* The poll of some creation has found the address.                        *)
AddressDiscovered ==
  \E f \in DOMAIN creations : creations[f].ssh # "none"

(* C10: an ipv4 is set exactly when the status is "up" or "stopping", or   *)
(* is "starting" with the address already found by the poll.               *)
C10_AddressIffUpStoppingOrProvisioning ==
  (getStatus.ipv4 # Undefined)
    <=> \/ status \in {"up", "stopping"}
        \/ (status = "starting" /\ AddressDiscovered)

(* The accepted createServer calls whose chain createServer ->             *)
(* waitForDroplet -> initDroplet has neither returned nor thrown yet.      *)
CreationsInFlight ==
  {f \in DOMAIN creations : creations[f].pc # "ended"}

(* The accepted stopServer calls that have neither returned nor thrown.    *)
TeardownsInFlight ==
  {s \in DOMAIN stops : stops[s].pc # "ended"}

(* C11, as claimed: whatever calls are made, forceStatus included, at most *)
(* one creation and at most one teardown is in flight.                     *)
C11_AtMostOneInFlight ==
  /\ Cardinality(CreationsInFlight) <= 1
  /\ Cardinality(TeardownsInFlight) <= 1

(* C11, amended: as long as forceStatus has not been called, at most one   *)
(* creation and at most one teardown is in flight.                         *)
C11_AtMostOneInFlightWithoutForce ==
  forces = 0 => C11_AtMostOneInFlight

(* A second creation is polling after the first one is over, a second      *)
(* teardown was accepted before it, and a further createServer call was    *)
(* just refused; forceStatus was never called.                             *)
C11_Witness ==
  /\ forces = 0
  /\ Len(creations) = 2
  /\ creations[1].pc = "ended"
  /\ creations[2].pc = "getDroplet"
  /\ Len(stops) >= 1
  /\ lastOp = Op("createServer", 0, "")

(* C12: no cloud or SSH failure propagates: no stopServer call ends in a   *)
(* rejected promise and no creation ends in an unhandled rejection.        *)
C12_NoFailurePropagates ==
  /\ \A s \in DOMAIN stops : stops[s].result # "rejected"
  /\ \A f \in DOMAIN creations : creations[f].result # "unhandled"

(* C13: once a runSSHCommand call made without a session has returned or   *)
(* thrown, the session it opened is disposed; the session supplied to the  *)
(* script commands is never disposed by runSSHCommand.                     *)
C13_ExecutorClosesOwnSessionOnly ==
  /\ \A s \in DOMAIN stops :
       stops[s].pc # "execCommand" => stops[s].ssh = "disposed"
  /\ \A f \in DOMAIN creations : creations[f].ssh # "disposed"

(* The changes of status a guard of the code lets through: line 158 after  *)
(* the guard of line 151, lines 281, 289 and 170 in a creation, line 184   *)
(* after the guard of line 176, and line 192.                              *)
LifecycleTable ==
  { <<"down", "starting">>, <<"starting", "up">>, <<"starting", "weird">>,
    <<"starting", "down">>, <<"up", "stopping">>, <<"weird", "stopping">>,
    <<"stopping", "down">> }

(* The values of the status through one step, in order of assignment: the  *)
(* step of initDroplet can assign twice, every other step at most once.    *)
StatusPath ==
  IF lastOp'.name = "initDroplet"
    THEN <<status>> \o initDropletStatuses
    ELSE <<status, status'>>

(* C14: every change of the status, except the assignment of forceStatus,  *)
(* is a transition of the lifecycle table; in particular none goes from    *)
(* "up" to "weird".                                                        *)
C14_InternalChangesFollowTable ==
  [][lastOp'.name # "forceStatus"
       => \A k \in 1..(Len(StatusPath) - 1) :
            \/ StatusPath[k] = StatusPath[k + 1]
            \/ <<StatusPath[k], StatusPath[k + 1]>> \in LifecycleTable]_vars

(* C15, as claimed: right after a createServer call has passed the guard   *)
(* from "down", with no step in between, a second createServer call can    *)
(* pass the guard as well.                                                 *)
C15_SecondCreateCanPass ==
  (lastOp.name = "createServer" /\ lastOp.flow # 0
     /\ Len(creations) < MaxCreates)
    => ENABLED (\E cb \in Callbacks : createServerAccepted(cb))

(* C15, amended: a createServer call that directly follows an accepted     *)
(* createServer call is refused and starts no creation.                    *)
C15_SecondCreateIsRefused ==
  [][(lastOp.name = "createServer" /\ lastOp.flow # 0
        /\ lastOp'.name = "createServer")
       => (lastOp'.flow = 0 /\ creations' = creations)]_vars

(* The second of two createServer calls was just refused: the first one's  *)
(* createDroplet request is still pending and nothing else has happened.   *)
C15_Witness ==
  /\ lastOp = Op("createServer", 0, "")
  /\ status = "starting"
  /\ Len(creations) = 1
  /\ creations[1].pc = "createDroplet"
  /\ Len(stops) = 0
  /\ forces = 0

(* C16: when the timer set by a not-ready poll tick fires, the status is   *)
(* still "starting" and a further poll tick runs: the creation is at its   *)
(* getDroplet request again.                                               *)
C16_NotReadyTickPollsAgain ==
  lastOp.name = "timerFires"
    => /\ status = "starting"
       /\ creations[lastOp.flow].pc = "getDroplet"

(* C17: a poll tick whose getDroplet request fails leaves the status       *)
(* "starting" and schedules another tick, as a not-ready answer does.      *)
C17_FailedQueryIsRetried ==
  lastOp.name = "getDropletReject"
    => /\ status = "starting"
       /\ creations[lastOp.flow].pc = "setTimeout"

(* C18: once a provisioning run has ended in "up" or "weird" and every     *)
(* script command has completed, its session is no longer open.            *)
C18_ProvisioningSessionReleased ==
  \A f \in DOMAIN creations :
    (creations[f].result \in {"up", "weird"} /\ creations[f].execs = {})
      => creations[f].ssh # "open"

(* C19: the commands executed are the strings of the script, at most one   *)
(* script command is executing at a time, and a creation that has made the *)
(* status "up" has no script command left to complete.                     *)
C19_ScriptRunsInOrderBeforeUp ==
  /\ lastOp.name \in {"execCommandResolve", "execCommandReject"}
       => \E i \in DOMAIN Script : lastOp.arg = Script[i]
  /\ \A f \in DOMAIN creations :
       /\ Cardinality(creations[f].execs) <= 1
       /\ creations[f].result = "up" => creations[f].execs = {}

(* C20: at each ssh.connect(this.sshConfig), the one initDroplet makes     *)
(* when the poll has recorded the address and the one runSSHCommand makes  *)
(* for an accepted stopServer, the configured host is the current ipv4.    *)
C20_ConnectTargetsRecordedAddress ==
  /\ (lastOp.name = "waitForDroplet"
        /\ creations[lastOp.flow].pc = "connect") => sshConfigHost = ipv4
  /\ (lastOp.name = "stopServer" /\ lastOp.flow # 0) => sshConfigHost = ipv4

====
